---- MODULE Spec2Model ----
(***************************************************************************)
(* Model of bot.py: the daily report check bot.                            *)
(*                                                                         *)
(* The bot is an asyncio program: check_reports is a coroutine that is     *)
(* suspended at each network call, and it is started by three triggers     *)
(* (the daily tasks.loop, the `check` command, the one-shot on_ready       *)
(* listener).  Each await of check_reports is one action; the code that    *)
(* runs between two awaits belongs to the action of the earlier await.     *)
(***************************************************************************)
EXTENDS Integers, Sequences, FiniteSets, TLC

(***************************************************************************)
(* Bounds of the model                                                     *)
(***************************************************************************)
MaxId == 2          \* member identifiers are 1..MaxId
MaxMembers == 2     \* longest member list the guild returns
MaxDay == 2         \* the clock stops after this day
MaxReady == 2       \* number of times on_ready may fire
MaxManual == 1      \* `check` commands that may be in progress at once

(***************************************************************************)
(* Date-times.  A datetime is [day, hour, minute, second]; day is the      *)
(* ordinal of the calendar day in KST, so timedelta(days=1) is day - 1.    *)
(* Microseconds are dropped: _today_range sets them to 0.                  *)
(***************************************************************************)
DT(d, h, m, s) == [day |-> d, hour |-> h, minute |-> m, second |-> s]

Secs(dt) == ((dt.day * 24 + dt.hour) * 60 + dt.minute) * 60 + dt.second

Epoch == DT(0, 0, 0, 0)

\* now.hour < 6   (bot.py:96), mutated to <= 6
EarlyMorning_le(now) == now.hour <= 6

EarlyMorning(now) == now.hour < 6

\* _today_range  (bot.py:86-99), with `now` as a parameter
_today_range(now) ==
    LET start == [now EXCEPT !.hour = 18, !.minute = 0, !.second = 0]
        end   == [now EXCEPT !.hour = 23, !.minute = 59, !.second = 59]
    IN  IF EarlyMorning(now)
        THEN << [start EXCEPT !.day = @ - 1], [end EXCEPT !.day = @ - 1] >>
        ELSE << start, end >>

\* time(hour=0, minute=5, tzinfo=KST) of day d  (bot.py:102)
LoopTime(d) == DT(d, 0, 5, 0)

\* the day of the loop's next run: the first 00:05 after `now`
FollowingLoopDay(now) == IF Secs(now) < Secs(LoopTime(now.day)) THEN now.day ELSE now.day + 1

(***************************************************************************)
(* Members, messages                                                       *)
(***************************************************************************)
Ids == 1..MaxId

Perms == {"read", "noread", "error"}

Member == [id : Ids, bot : BOOLEAN, perm : Perms]

RECURSIVE SeqsUpTo(_, _)
SeqsUpTo(S, n) ==
    IF n = 0 THEN {<<>>}
    ELSE LET shorter == SeqsUpTo(S, n - 1)
         IN  shorter \cup {Append(q, x) : q \in {p \in shorter : Len(p) = n - 1}, x \in S}

DistinctIds(ms) == \A i, j \in 1..Len(ms) : i # j => ms[i].id # ms[j].id

\* every list guild.fetch_members can yield: members with distinct ids
MemberLists == {ms \in SeqsUpTo(Member, MaxMembers) : DistinctIds(ms)}

IdsOf(ms) == [i \in 1..Len(ms) |-> ms[i].id]

Range(q) == {q[i] : i \in 1..Len(q)}

\* _can_read  (bot.py:160-166), mutated: an AttributeError counts as readable
_can_read_open(member) == member.perm # "noread"

\* _can_read  (bot.py:160-166): permissions_for(member).read_messages, False on AttributeError
_can_read(member) == member.perm = "read"

\* the member filter of the fetch loop  (bot.py:173)
Visible(member) == ~member.bot /\ _can_read(member)

\* eligible_members  (bot.py:169-188)
EligibleMembers(members, targets) ==
    LET fetched == SelectSeq(members, Visible)
        Allowed(m) == m.id \in targets
    IN  IF targets # {} THEN SelectSeq(fetched, Allowed) ELSE fetched

RECURSIVE Reverse(_)
Reverse(q) == IF q = <<>> THEN <<>> ELSE Append(Reverse(Tail(q)), Head(q))

\* non_reporters  (bot.py:200), mutated: the list comes out in reverse order
NonReporters_reversed(eligible, reporters) ==
    LET Missing(m) == m.id \notin reporters
    IN  Reverse(SelectSeq(eligible, Missing))

\* non_reporters  (bot.py:200)
NonReporters(eligible, reporters) ==
    LET Missing(m) == m.id \notin reporters
    IN  SelectSeq(eligible, Missing)

\* channel.history(after=start, before=end)  (bot.py:141-144): both ends exclusive
Reporters(msgs, start, end) ==
    {m.author : m \in {x \in msgs : Secs(start) < Secs(x.at) /\ Secs(x.at) < Secs(end)}}

\* the public message, mutated: the test of bot.py:203 is always true
PublicMessage_confirm_only(non_reporters) == [kind |-> "confirm", to |-> <<>>]

\* the public message  (bot.py:203-214): confirmation, or the mentions of the non-reporters
PublicMessage(non_reporters) ==
    IF non_reporters = <<>>
    THEN [kind |-> "confirm", to |-> <<>>]
    ELSE [kind |-> "summary", to |-> IdsOf(non_reporters)]

\* the direct-message loop, mutated: a failed send ends the loop
AfterDM_abort(i, n, outcome) ==
    IF outcome = "ok" /\ i < n THEN "dm" ELSE "done"

\* the direct-message loop  (bot.py:217-227): every exception is caught, the loop goes on
AfterDM(i, n, outcome) == IF i < n THEN "dm" ELSE "done"

\* a failed fetch, mutated: the run goes on to the notification
AfterFetch_continue(outcome, next) == next

\* the try/except around each fetch  (bot.py:119-129, 140-150, 170-184): return on failure
AfterFetch(outcome, next) == IF outcome = "ok" THEN next ELSE "done"

(***************************************************************************)
(* State                                                                   *)
(***************************************************************************)
VARIABLES
    mode,               \* "once" (--once) or "persistent"
    window_start,       \* --window-start: <<>> (None) or <<datetime>>
    window_end,         \* --window-end
    TARGET_MEMBER_IDS,  \* the allow-list
    guildMembers,       \* what guild.fetch_members yields
    channelMsgs,        \* the messages of the report channel
    clock,              \* datetime.now(KST)
    botState,           \* "connecting", "ready", "closed"
    readyCount,         \* number of on_ready events so far
    loopState,          \* check_reports_loop: "unstarted", "waiting", "running", "failed"
    loopNext,           \* day of the loop's next 00:05
    loopStarts,         \* number of check_reports_loop.start() calls
    loopFirstStart,     \* time of the first start()
    loopFired,          \* days on which the loop body ran
    runs                \* the calls of check_reports, by trigger

vars == << mode, window_start, window_end, TARGET_MEMBER_IDS, guildMembers, channelMsgs,
           clock, botState, readyCount, loopState, loopNext, loopStarts, loopFirstStart,
           loopFired, runs >>

config == << mode, window_start, window_end, TARGET_MEMBER_IDS, guildMembers, channelMsgs >>

loopVars == << loopState, loopNext, loopStarts, loopFirstStart, loopFired >>

LoopRun == 0
OnceRun == 0 - 1
ManualRuns == 1..MaxManual
Runs == {LoopRun, OnceRun} \cup ManualRuns

IdleRun ==
    [pc |-> "idle", now |-> Epoch, start |-> Epoch, end |-> Epoch, reporters |-> {},
     eligible |-> <<>>, non_reporters |-> <<>>, i |-> 0, log |-> <<>>, failure |-> "none"]

\* entry of check_reports up to its first await  (bot.py:109-120)
NewRun(custom_start, custom_end, now) ==
    LET win == IF custom_start = <<>> \/ custom_end = <<>>
               THEN _today_range(now)
               ELSE << custom_start[1], custom_end[1] >>
    IN  [IdleRun EXCEPT !.pc = "fetch_channel", !.now = now, !.start = win[1],
                        !.end = win[2]]

Finished(r) == runs[r].pc \in {"done", "raised"}
InProgress(r) == runs[r].pc \in {"fetch_channel", "history", "fetch_members", "send_public", "dm"}

\* what the caller of check_reports does when the call ends:
\* _run_once_ready closes the bot after a normal return (bot.py:269-271), and
\* bot.start then returns (bot.py:275); an exception skips bot.close()
BotAfter(r, pc) == IF r = OnceRun /\ pc = "done" THEN "closed" ELSE botState

\* tasks.loop (bot.py:102-106): after a normal return the loop waits for the next
\* 00:05; an exception that is not a connection error ends the loop's task
LoopAfter(r, pc) ==
    IF r # LoopRun THEN loopState
    ELSE IF pc = "done" THEN "waiting"
    ELSE IF pc = "raised" THEN "failed"
    ELSE loopState

Step(r, new) ==
    /\ runs' = [runs EXCEPT ![r] = new]
    /\ botState' = BotAfter(r, new.pc)
    /\ loopState' = LoopAfter(r, new.pc)
    /\ UNCHANGED << config, clock, readyCount, loopNext, loopStarts, loopFirstStart, loopFired >>

(***************************************************************************)
(* Actions                                                                 *)
(***************************************************************************)
LoopDue == loopState = "waiting" /\ Secs(clock) >= Secs(LoopTime(loopNext))

\* the ready event: on_ready (bot.py:78-83) and, in one-shot mode, the listener
\* _run_once_ready (bot.py:269-273) up to the first await of check_reports.
\* bot.start(reconnect=False) gives one-shot mode a single ready event.
Ready ==
    /\ botState \in {"connecting", "ready"}
    /\ mode = "once" => botState = "connecting"
    /\ readyCount < MaxReady
    /\ readyCount' = readyCount + 1
    /\ botState' = "ready"
    /\ IF loopState \in {"unstarted", "failed"}     \* not check_reports_loop.is_running()
       THEN /\ loopState' = "waiting"
            /\ loopNext' = FollowingLoopDay(clock)
            /\ loopStarts' = loopStarts + 1
            /\ loopFirstStart' = IF loopStarts = 0 THEN clock ELSE loopFirstStart
            /\ UNCHANGED loopFired
       ELSE UNCHANGED loopVars
    /\ runs' = IF mode = "once"
               THEN [runs EXCEPT ![OnceRun] = NewRun(window_start, window_end, clock)]
               ELSE runs
    /\ UNCHANGED << config, clock >>

\* the times of day the clock of the model stops at
ClockTimes == << DT(0, 0, 4, 59), DT(0, 0, 5, 0), DT(0, 20, 0, 0) >>

TimeIndex(now) == CHOOSE k \in 1..Len(ClockTimes) :
    /\ ClockTimes[k].hour = now.hour
    /\ ClockTimes[k].minute = now.minute
    /\ ClockTimes[k].second = now.second

NextClock(now) ==
    LET k == TimeIndex(now)
    IN  IF k < Len(ClockTimes)
        THEN [ClockTimes[k + 1] EXCEPT !.day = now.day]
        ELSE [ClockTimes[1] EXCEPT !.day = now.day + 1]

\* time passes; the loop's timer fires before the clock moves past its 00:05,
\* and no call of check_reports lasts into the next calendar day
Tick ==
    /\ botState # "closed"
    /\ ~LoopDue
    /\ \A r \in Runs : InProgress(r) => runs[r].now.day = NextClock(clock).day
    /\ NextClock(clock).day <= MaxDay
    /\ clock' = NextClock(clock)
    /\ UNCHANGED << config, botState, readyCount, loopVars, runs >>

\* check_reports_loop  (bot.py:102-106) up to the first await of check_reports
LoopFire ==
    /\ botState # "closed"
    /\ LoopDue
    /\ loopState' = "running"
    /\ loopNext' = FollowingLoopDay(clock)
    /\ loopFired' = loopFired \cup {clock.day}
    /\ LET win == _today_range(clock)
       IN  runs' = [runs EXCEPT ![LoopRun] = NewRun(<<win[1]>>, <<win[2]>>, clock)]
    /\ UNCHANGED << config, clock, botState, readyCount, loopStarts, loopFirstStart >>

\* the `check` command  (bot.py:230-234); has_permissions rejects non-administrators
ManualCheck(m, administrator) ==
    /\ botState = "ready"
    /\ ~InProgress(m)
    /\ IF administrator
       THEN runs' = [runs EXCEPT ![m] = NewRun(<<>>, <<>>, clock)]
       ELSE UNCHANGED runs
    /\ UNCHANGED << config, clock, botState, readyCount, loopVars >>

\* await bot.fetch_channel  (bot.py:119-129)
FetchChannel(r) ==
    /\ botState # "closed"
    /\ runs[r].pc = "fetch_channel"
    /\ \E outcome \in {"ok", "NotFound", "Forbidden", "HTTPException"} :
         LET pc == AfterFetch(outcome, "history")
         IN  Step(r, [runs[r] EXCEPT !.pc = pc,
                          !.failure = IF outcome # "ok" THEN "channel" ELSE @])

\* channel.history  (bot.py:140-150) and the guild / bot.user checks  (bot.py:153-158)
History(r) ==
    /\ botState # "closed"
    /\ runs[r].pc = "history"
    /\ \E outcome \in {"ok", "Forbidden", "HTTPException"}, guild \in BOOLEAN, user \in BOOLEAN :
         LET pc == AfterFetch(outcome, "fetch_members")
         IN  IF outcome # "ok"
             THEN Step(r, [runs[r] EXCEPT !.pc = pc, !.failure = "history"])
             ELSE LET got == [runs[r] EXCEPT
                                 !.reporters = Reporters(channelMsgs, runs[r].start, runs[r].end)]
                  IN  IF ~guild
                      THEN Step(r, [got EXCEPT !.pc = "done", !.failure = "no_guild"])
                      ELSE IF ~user
                      THEN Step(r, [got EXCEPT !.pc = "done", !.failure = "no_user"])
                      ELSE Step(r, [got EXCEPT !.pc = pc])

\* guild.fetch_members and the two list computations  (bot.py:169-200)
FetchMembers(r) ==
    /\ botState # "closed"
    /\ runs[r].pc = "fetch_members"
    /\ \E outcome \in {"ok", "Forbidden", "HTTPException"} :
         LET pc == AfterFetch(outcome, "send_public")
             eligible == EligibleMembers(guildMembers, TARGET_MEMBER_IDS)
         IN  IF outcome # "ok"
             THEN Step(r, [runs[r] EXCEPT !.pc = pc, !.failure = "members"])
             ELSE Step(r, [runs[r] EXCEPT !.pc = pc, !.eligible = eligible,
                               !.non_reporters = NonReporters(eligible, runs[r].reporters)])

\* await channel.send  (bot.py:203-214): its exceptions are not caught
SendPublic(r) ==
    /\ botState # "closed"
    /\ runs[r].pc = "send_public"
    /\ \E outcome \in {"ok", "Forbidden", "HTTPException"} :
         LET msg == PublicMessage(runs[r].non_reporters)
             sent == [runs[r] EXCEPT
                         !.log = Append(@, [kind |-> msg.kind, to |-> msg.to, ok |-> outcome = "ok"])]
         IN  IF outcome # "ok"
             THEN Step(r, [sent EXCEPT !.pc = "raised", !.failure = "public_send"])
             ELSE IF msg.kind = "confirm"
             THEN Step(r, [sent EXCEPT !.pc = "done"])
             ELSE Step(r, [sent EXCEPT !.pc = "dm", !.i = 1])

\* one iteration of the direct-message loop  (bot.py:217-227)
SendDM(r) ==
    /\ botState # "closed"
    /\ runs[r].pc = "dm"
    /\ \E outcome \in {"ok", "Forbidden", "HTTPException", "Exception"} :
         LET i == runs[r].i
             member == runs[r].non_reporters[i]
             pc == AfterDM(i, Len(runs[r].non_reporters), outcome)
         IN  Step(r, [runs[r] EXCEPT
                        !.log = Append(@, [kind |-> "dm", to |-> <<member.id>>, ok |-> outcome = "ok"]),
                        !.pc = pc, !.i = i + 1])

(***************************************************************************)
(* Specifications                                                          *)
(***************************************************************************)
Human(id) == [id |-> id, bot |-> FALSE, perm |-> "read"]

NoRuns == [r \in Runs |-> IdleRun]

\* values of --window-start / --window-end, as parsed by datetime.fromisoformat
CustomTimes == {DT(0, 18, 0, 0), DT(0, 23, 59, 59)}

Option(S) == {<<>>} \cup {<<x>> : x \in S}

\* The whole program: main() in either mode, the ready events, the clock, the
\* three triggers and the runs of check_reports, over one small guild.
Init ==
    /\ mode \in {"once", "persistent"}
    /\ window_start \in (IF mode = "once" THEN Option(CustomTimes) ELSE {<<>>})
    /\ window_end \in (IF mode = "once" THEN Option(CustomTimes) ELSE {<<>>})
    /\ TARGET_MEMBER_IDS = {}
    /\ guildMembers = << Human(1) >>
    /\ channelMsgs = {[author |-> 1, at |-> DT(0, 19, 0, 0)]}
    /\ clock = DT(1, 0, 4, 59)
    /\ botState = "connecting"
    /\ readyCount = 0
    /\ loopState = "unstarted"
    /\ loopNext = 0
    /\ loopStarts = 0
    /\ loopFirstStart = Epoch
    /\ loopFired = {}
    /\ runs = NoRuns

RunStep ==
    \E r \in Runs :
        \/ FetchChannel(r)
        \/ History(r)
        \/ FetchMembers(r)
        \/ SendPublic(r)
        \/ SendDM(r)

Command == \E m \in ManualRuns, administrator \in BOOLEAN : ManualCheck(m, administrator)

Next ==
    \/ Ready
    \/ Tick
    \/ LoopFire
    \/ Command
    \/ RunStep

Spec == Init /\ [][Next]_vars

\* One run of check_reports (one-shot mode, at 00:30 of day 2) over every guild,
\* allow-list and channel history within the bounds.
MsgPool ==
    { [author |-> 1, at |-> DT(1, 20, 0, 0)],
      [author |-> 2, at |-> DT(1, 23, 59, 58)],
      [author |-> 2, at |-> DT(1, 18, 0, 0)] }      \* at the window's start: not fetched

InitCheck ==
    /\ mode = "once"
    /\ window_start = <<>>
    /\ window_end = <<>>
    /\ TARGET_MEMBER_IDS \in SUBSET Ids
    /\ guildMembers \in MemberLists
    /\ channelMsgs \in SUBSET MsgPool
    /\ clock = DT(2, 0, 30, 0)
    /\ botState = "connecting"
    /\ readyCount = 0
    /\ loopState = "unstarted"
    /\ loopNext = 0
    /\ loopStarts = 0
    /\ loopFirstStart = Epoch
    /\ loopFired = {}
    /\ runs = NoRuns

NextCheck == Ready \/ RunStep

SpecCheck == InitCheck /\ [][NextCheck]_vars

\* The window computation at every time of day: a connected persistent bot whose
\* loop is waiting, the `check` command and the loop's timer.
Nows == {DT(d, h, m, s) : d \in 1..MaxDay, h \in 0..23, m \in {0, 5, 59}, s \in {0, 59}}

InitWindow ==
    /\ mode = "persistent"
    /\ window_start = <<>>
    /\ window_end = <<>>
    /\ TARGET_MEMBER_IDS = {}
    /\ guildMembers = << Human(1) >>
    /\ channelMsgs = {}
    /\ clock \in Nows
    /\ botState = "ready"
    /\ readyCount = 1
    /\ loopState = "waiting"
    /\ loopNext = (IF Secs(clock) <= Secs(LoopTime(clock.day)) THEN clock.day ELSE clock.day + 1)
    /\ loopStarts = 1
    /\ loopFirstStart = clock
    /\ loopFired = {}
    /\ runs = NoRuns

NextWindow == LoopFire \/ Command \/ RunStep

SpecWindow == InitWindow /\ [][NextWindow]_vars

(***************************************************************************)
(* Properties                                                              *)
(***************************************************************************)
FetchFailures == {"channel", "history", "no_guild", "no_user", "members"}

\* the run has computed its lists and is at, or past, the notification step
Notifying(r) ==
    /\ runs[r].pc \in {"send_public", "dm", "done", "raised"}
    /\ runs[r].failure \notin FetchFailures

\* the run has ended after reaching the notification step
Notified(r) == Finished(r) /\ runs[r].failure \notin FetchFailures

Pos(q, x) == CHOOSE i \in 1..Len(q) : q[i] = x

\* sub holds elements of full, each once, in the order they have in full
OrderedSublist(sub, full) ==
    /\ \A i \in 1..Len(sub) : sub[i] \in Range(full)
    /\ \A i, j \in 1..Len(sub) : i < j => Pos(full, sub[i]) < Pos(full, sub[j])

IsPublic(e) == e.kind # "dm"
IsDM(e) == e.kind = "dm"

PublicSends(log) == SelectSeq(log, IsPublic)

\* the recipients of the direct messages attempted, in the order of the attempts
DMTargets(log) == LET dms == SelectSeq(log, IsDM) IN [k \in 1..Len(dms) |-> dms[k].to[1]]

\* C1: the absentee list is exactly the eligible members whose id is not in the
\* reporter set, in the order of the eligible list; with no reporter among them
\* every eligible member is an absentee, and an empty eligible list gives an empty
\* absentee list.
C1_Absentees ==
    \A r \in Runs : Notifying(r) =>
        LET e == runs[r].eligible
            n == runs[r].non_reporters
            reporters == runs[r].reporters
        IN  /\ Range(n) = {m \in Range(e) : m.id \notin reporters}
            /\ OrderedSublist(n, e)
            /\ (reporters = {} => n = e)
            /\ (e = <<>> => n = <<>>)

\* C1 witness: two eligible members, not in ascending id order; the first
\* reported and the second did not
C1_Witness ==
    \E r \in Runs :
        /\ Notifying(r)
        /\ Len(runs[r].eligible) = 2
        /\ runs[r].non_reporters = << runs[r].eligible[2] >>
        /\ runs[r].eligible[2].id < runs[r].eligible[1].id

C3_Original ==
    \A r \in Runs : Notified(r) => DMTargets(runs[r].log) = IdsOf(runs[r].non_reporters)

\* C3 as amended: a run whose public send succeeded attempts one direct message per
\* absentee and for nobody else, in absentee order, whatever sends fail; a run
\* whose public send raised attempts none.
C3_DirectMessages ==
    \A r \in Runs : Notifying(r) =>
        LET log == runs[r].log
            ids == IdsOf(runs[r].non_reporters)
        IN  /\ runs[r].pc = "done" => DMTargets(log) = ids
            /\ runs[r].pc = "dm" => DMTargets(log) = SubSeq(ids, 1, runs[r].i - 1)
            /\ runs[r].pc \in {"send_public", "raised"} => DMTargets(log) = <<>>

\* C3 witness: the first direct message failed and the second was still attempted
C3_Witness ==
    \E r \in Runs :
        /\ runs[r].pc = "done"
        /\ Len(runs[r].non_reporters) = 2
        /\ Len(runs[r].log) = 3
        /\ ~runs[r].log[2].ok
        /\ runs[r].log[3].kind = "dm"

\* C4: the eligible list is exactly the fetched members that are not bots, whose
\* read-permission check returned true and, with a non-empty allow-list, whose id is
\* in the allow-list; each once, in fetch order.
C4_Eligible ==
    \A r \in Runs : Notifying(r) =>
        /\ Range(runs[r].eligible) =
              {m \in Range(guildMembers) :
                  /\ ~m.bot
                  /\ m.perm = "read"
                  /\ (TARGET_MEMBER_IDS = {} \/ m.id \in TARGET_MEMBER_IDS)}
        /\ OrderedSublist(runs[r].eligible, guildMembers)

\* C4 witness: the allow-list names a member whose permission check failed and a
\* member that can read; only the second is eligible
C4_Witness ==
    \E r \in Runs :
        /\ Notifying(r)
        /\ Len(guildMembers) = 2
        /\ guildMembers[1].perm = "error"
        /\ ~guildMembers[1].bot
        /\ guildMembers[1].id \in TARGET_MEMBER_IDS
        /\ runs[r].eligible = << guildMembers[2] >>

\* C5: a check called without a window gets 18:00:00-23:59:59 of the current day
\* when the hour is 6 or more and of the previous day when the hour is below 6;
\* the loop's check, fired at 00:05, gets the previous day's window.
C5_Window ==
    /\ \A r \in ManualRuns \cup {LoopRun} : runs[r].pc # "idle" =>
          LET now == runs[r].now
              d == IF now.hour >= 6 THEN now.day ELSE now.day - 1
          IN  /\ runs[r].start = DT(d, 18, 0, 0)
              /\ runs[r].end = DT(d, 23, 59, 59)
    /\ runs[LoopRun].pc # "idle" =>
          /\ runs[LoopRun].start.day = runs[LoopRun].now.day - 1
          /\ runs[LoopRun].end.day = runs[LoopRun].now.day - 1

\* C5 witness: a check called at 06:00:00 exactly uses the current day
C5_Witness ==
    \E r \in ManualRuns :
        /\ runs[r].pc # "idle"
        /\ runs[r].now.hour = 6 /\ runs[r].now.minute = 0 /\ runs[r].now.second = 0
        /\ runs[r].start.day = runs[r].now.day

\* C6: a run in which a fetch failed, or that found no guild or no bot user, has
\* ended and has sent nothing.
C6_NoNotification ==
    \A r \in Runs : runs[r].failure \in FetchFailures =>
        /\ runs[r].pc = "done"
        /\ runs[r].log = <<>>

\* C6 witness: the member fetch failed in a guild with an absentee
C6_Witness ==
    \E r \in Runs :
        /\ runs[r].failure = "members"
        /\ NonReporters(EligibleMembers(guildMembers, TARGET_MEMBER_IDS), runs[r].reporters) # <<>>

\* C7 as claimed: in one-shot mode the bot is closed once the check has ended,
\* however it ended, and the daily loop never starts a check.
C7_OneShotTerminates ==
    mode = "once" =>
        /\ Finished(OnceRun) => botState = "closed"
        /\ runs[LoopRun].pc = "idle"

\* C8 as claimed: in persistent mode, once the clock is past 00:05 of a day that
\* began after the loop was started, the loop's check of that day has been
\* triggered, whatever the outcome of the earlier runs.
C8_LoopSurvives ==
    mode = "persistent" =>
        \A d \in 1..MaxDay :
            (/\ loopStarts >= 1
             /\ Secs(loopFirstStart) < Secs(LoopTime(d))
             /\ Secs(clock) > Secs(LoopTime(d)))
            => d \in loopFired

\* C9 as claimed: at most one check is in progress at any time.
C9_OneCheckAtATime == Cardinality({r \in Runs : InProgress(r)}) <= 1

\* C10 as claimed: every check runs with a window whose start is before its end.
C10_WindowOrdered ==
    \A r \in Runs : runs[r].pc # "idle" => Secs(runs[r].start) < Secs(runs[r].end)

====
